---------------------------- MODULE Spec2Model ----------------------------
(***************************************************************************)
(* PrivateVideoCall: the ledger contract (contracts/PrivateVideoCall.sol)  *)
(* and the browser client (app.js, class PrivateVideoCallApp) that drives  *)
(* it.  The encrypted fields of the contract (keys, status, signaling      *)
(* payload) are opaque handles that no require reads; they are left out.   *)
(***************************************************************************)
EXTENDS Integers, Sequences, FiniteSets, Bags, TLC

\* ---------------------------------------------------------------- bounds
MaxTime == 2
MaxCalls == 2
MaxInvites == 2
MaxTasks == 2
MaxInbox == 1

\* ------------------------------------------------------------- universes
Users == {"A", "B", "C"}
\* the accounts that run the client; the others reach the contract directly
Clients == {"A"}
\* the accounts a client's calls involve: its contact list, and the
\* accounts that invite it
Contacts == {"B"}
\* null, and the values a nullable field holds, are tuples: <<>> is null
Null == <<>>
ZeroAddress == "0x0"
Times == 1..MaxTime
\* keccak256(abi.encodePacked(sender, recipient, block.timestamp)): one id
\* per (sender, recipient, timestamp)
InviteIds == Users \X Users \X Times

VARIABLES
    \* ---- contract storage
    now,              \* block.timestamp of the block being built
    nextCallId,
    videoCalls,       \* callId -> VideoCall, for the ids written
    callInvitations,  \* inviteId -> CallInvitation, for the ids written
    isRegistered,     \* userProfiles[u].isRegistered
    blockedUsers,     \* userProfiles[u].blockedUsers, as a set
    userCallHistory,  \* user -> sequence of callIds
    emitted,          \* the events of the last transaction sent directly
    \* ---- provider: the events on their way to a client's listeners
    inbox,            \* client -> queue of events not yet delivered to it
    \* ---- PrivateVideoCallApp, one instance per client
    currentCallId,
    currentInviteId,
    callStartTime,
    localStream,
    peerConnection,
    durationInterval,
    intervals,        \* client -> number of setInterval timers not yet cleared
    tasks             \* client -> bag of async invocations in flight

ledgerVars == <<now, nextCallId, videoCalls, callInvitations, isRegistered,
                blockedUsers, userCallHistory, emitted>>
storageVars == <<nextCallId, videoCalls, callInvitations, isRegistered,
                 blockedUsers, userCallHistory>>
appVars == <<currentCallId, currentInviteId, callStartTime, localStream,
             peerConnection, durationInterval, intervals, tasks>>
providerVars == <<inbox>>
vars == <<now, nextCallId, videoCalls, callInvitations, isRegistered,
          blockedUsers, userCallHistory, emitted, inbox,
          currentCallId, currentInviteId, callStartTime, localStream,
          peerConnection, durationInterval, intervals, tasks>>

\* ================================================================ ledger

ZeroCall == [initiator |-> ZeroAddress, recipient |-> ZeroAddress,
             isActive |-> FALSE, isConnected |-> FALSE,
             startTime |-> 0, endTime |-> 0]
ZeroInvitation == [from |-> ZeroAddress, to |-> ZeroAddress, timestamp |-> 0,
                   isAccepted |-> FALSE, isDeclined |-> FALSE]

\* a mapping read: the zero struct for a key never written
Call(callId) ==
    IF callId \in DOMAIN videoCalls THEN videoCalls[callId] ELSE ZeroCall
Invitation(inviteId) ==
    IF inviteId \in DOMAIN callInvitations THEN callInvitations[inviteId]
    ELSE ZeroInvitation

Event(type, a, b, id, n) == [type |-> type, a |-> a, b |-> b, id |-> id, n |-> n]

InviteIdOf(sender, recipient, timestamp) == <<sender, recipient, timestamp>>

\* ---- modifiers
onlyRegistered(sender) == isRegistered[sender]
callExists(callId) == callId < nextCallId
\* the modifier with its require left out
onlyCallParticipant_Anyone(sender, callId) == TRUE
onlyCallParticipant(sender, callId) ==
    sender = Call(callId).initiator \/ sender = Call(callId).recipient

\* Each external function is three definitions: its requires (with its
\* modifiers), its writes to storage, and the events it emits.  A call whose
\* requires fail reverts: no write, no event.
Revert == UNCHANGED storageVars

\* ---- registerUser / updateUserStatus
\* the function without its already-registered require
registerUserRequires_Always(sender) == TRUE
registerUserRequires(sender) == ~isRegistered[sender]
registerUser(sender) ==
    IF registerUserRequires(sender)
    THEN /\ isRegistered' = [isRegistered EXCEPT ![sender] = TRUE]
         /\ UNCHANGED <<nextCallId, videoCalls, callInvitations, blockedUsers,
                        userCallHistory>>
    ELSE Revert
registerUserEmits(sender) ==
    <<Event("UserRegistered", sender, ZeroAddress, 0, 0)>>

updateUserStatusRequires(sender) == onlyRegistered(sender)
updateUserStatus(sender) ==
    IF updateUserStatusRequires(sender) THEN UNCHANGED storageVars ELSE Revert
updateUserStatusEmits(sender) ==
    <<Event("UserStatusUpdated", sender, ZeroAddress, 0, 0)>>

\* ---- inviteToCall
\* the function without its blocked-sender require
inviteToCallRequires_IgnoresBlock(sender, recipient) ==
    /\ onlyRegistered(sender)
    /\ recipient # sender
    /\ isRegistered[recipient]
inviteToCallRequires(sender, recipient) ==
    /\ onlyRegistered(sender)
    /\ recipient # sender
    /\ isRegistered[recipient]
    /\ sender \notin blockedUsers[recipient]
inviteToCall(sender, recipient) ==
    IF inviteToCallRequires(sender, recipient)
    THEN LET inviteId == InviteIdOf(sender, recipient, now)
             invitation == [from |-> sender, to |-> recipient,
                            timestamp |-> now, isAccepted |-> FALSE,
                            isDeclined |-> FALSE]
         IN /\ callInvitations' =
                  [x \in DOMAIN callInvitations \cup {inviteId} |->
                      IF x = inviteId THEN invitation ELSE callInvitations[x]]
            /\ UNCHANGED <<nextCallId, videoCalls, isRegistered, blockedUsers,
                           userCallHistory>>
    ELSE Revert
inviteToCallEmits(sender, recipient) ==
    <<Event("CallInvited", sender, recipient,
            InviteIdOf(sender, recipient, now), 0)>>

\* ---- acceptCallInvitation / declineCallInvitation
\* the function without its "Not your invitation" require
acceptCallInvitationRequires_AnyResponder(sender, inviteId) ==
    /\ onlyRegistered(sender)
    /\ ~Invitation(inviteId).isAccepted /\ ~Invitation(inviteId).isDeclined
acceptCallInvitationRequires(sender, inviteId) ==
    /\ onlyRegistered(sender)
    /\ Invitation(inviteId).to = sender
    /\ ~Invitation(inviteId).isAccepted /\ ~Invitation(inviteId).isDeclined
\* the function recording the two roles the other way round
acceptCallInvitation_SwapsRoles(sender, inviteId) ==
    IF acceptCallInvitationRequires(sender, inviteId)
    THEN LET invitation == Invitation(inviteId)
             callId == nextCallId
             call == [initiator |-> sender, recipient |-> invitation.from,
                      isActive |-> TRUE, isConnected |-> FALSE,
                      startTime |-> now, endTime |-> 0]
             pushed == [userCallHistory EXCEPT
                           ![invitation.from] = Append(@, callId)]
         IN /\ callInvitations' =
                  [callInvitations EXCEPT ![inviteId].isAccepted = TRUE]
            /\ nextCallId' = nextCallId + 1
            /\ videoCalls' = [x \in DOMAIN videoCalls \cup {callId} |->
                                 IF x = callId THEN call ELSE videoCalls[x]]
            /\ userCallHistory' = [pushed EXCEPT ![sender] = Append(@, callId)]
            /\ UNCHANGED <<isRegistered, blockedUsers>>
    ELSE Revert
\* the function without its increment of nextCallId
acceptCallInvitation_KeepsNextCallId(sender, inviteId) ==
    IF acceptCallInvitationRequires(sender, inviteId)
    THEN LET invitation == Invitation(inviteId)
             callId == nextCallId
             call == [initiator |-> invitation.from, recipient |-> sender,
                      isActive |-> TRUE, isConnected |-> FALSE,
                      startTime |-> now, endTime |-> 0]
             pushed == [userCallHistory EXCEPT
                           ![invitation.from] = Append(@, callId)]
         IN /\ callInvitations' =
                  [callInvitations EXCEPT ![inviteId].isAccepted = TRUE]
            /\ nextCallId' = nextCallId
            /\ videoCalls' = [x \in DOMAIN videoCalls \cup {callId} |->
                                 IF x = callId THEN call ELSE videoCalls[x]]
            /\ userCallHistory' = [pushed EXCEPT ![sender] = Append(@, callId)]
            /\ UNCHANGED <<isRegistered, blockedUsers>>
    ELSE Revert
\* the function without its push to the recipient's history
acceptCallInvitation_OneHistory(sender, inviteId) ==
    IF acceptCallInvitationRequires(sender, inviteId)
    THEN LET invitation == Invitation(inviteId)
             callId == nextCallId
             call == [initiator |-> invitation.from, recipient |-> sender,
                      isActive |-> TRUE, isConnected |-> FALSE,
                      startTime |-> now, endTime |-> 0]
             pushed == [userCallHistory EXCEPT
                           ![invitation.from] = Append(@, callId)]
         IN /\ callInvitations' =
                  [callInvitations EXCEPT ![inviteId].isAccepted = TRUE]
            /\ nextCallId' = nextCallId + 1
            /\ videoCalls' = [x \in DOMAIN videoCalls \cup {callId} |->
                                 IF x = callId THEN call ELSE videoCalls[x]]
            /\ userCallHistory' = pushed
            /\ UNCHANGED <<isRegistered, blockedUsers>>
    ELSE Revert
acceptCallInvitation(sender, inviteId) ==
    IF acceptCallInvitationRequires(sender, inviteId)
    THEN LET invitation == Invitation(inviteId)
             callId == nextCallId
             call == [initiator |-> invitation.from, recipient |-> sender,
                      isActive |-> TRUE, isConnected |-> FALSE,
                      startTime |-> now, endTime |-> 0]
             pushed == [userCallHistory EXCEPT
                           ![invitation.from] = Append(@, callId)]
         IN /\ callInvitations' =
                  [callInvitations EXCEPT ![inviteId].isAccepted = TRUE]
            /\ nextCallId' = nextCallId + 1
            /\ videoCalls' = [x \in DOMAIN videoCalls \cup {callId} |->
                                 IF x = callId THEN call ELSE videoCalls[x]]
            /\ userCallHistory' = [pushed EXCEPT ![sender] = Append(@, callId)]
            /\ UNCHANGED <<isRegistered, blockedUsers>>
    ELSE Revert
acceptCallInvitationEmits(sender, inviteId) ==
    <<Event("CallAccepted", Invitation(inviteId).from, sender, nextCallId, 0)>>

\* the function without its "Invitation already responded" require
declineCallInvitationRequires_IgnoresAnswer(sender, inviteId) ==
    /\ onlyRegistered(sender)
    /\ Invitation(inviteId).to = sender
declineCallInvitationRequires(sender, inviteId) ==
    /\ onlyRegistered(sender)
    /\ Invitation(inviteId).to = sender
    /\ ~Invitation(inviteId).isAccepted /\ ~Invitation(inviteId).isDeclined
declineCallInvitation(sender, inviteId) ==
    IF declineCallInvitationRequires(sender, inviteId)
    THEN /\ callInvitations' =
               [callInvitations EXCEPT ![inviteId].isDeclined = TRUE]
         /\ UNCHANGED <<nextCallId, videoCalls, isRegistered, blockedUsers,
                        userCallHistory>>
    ELSE Revert
declineCallInvitationEmits(sender, inviteId) ==
    <<Event("CallDeclined", Invitation(inviteId).from, sender, inviteId, 0)>>

\* ---- startVideoCall / updateSignalingData / endVideoCall
\* the function without its check of the active flag
startVideoCallRequires_IgnoresActive(sender, callId) ==
    /\ callExists(callId)
    /\ onlyCallParticipant(sender, callId)
    /\ ~Call(callId).isConnected
startVideoCallRequires(sender, callId) ==
    /\ callExists(callId)
    /\ onlyCallParticipant(sender, callId)
    /\ Call(callId).isActive /\ ~Call(callId).isConnected
\* the function without its assignment to startTime
startVideoCall_KeepsStartTime(sender, callId) ==
    IF startVideoCallRequires(sender, callId)
    THEN /\ videoCalls' = [videoCalls EXCEPT ![callId].isConnected = TRUE]
         /\ UNCHANGED <<nextCallId, callInvitations, isRegistered,
                        blockedUsers, userCallHistory>>
    ELSE Revert
startVideoCall(sender, callId) ==
    IF startVideoCallRequires(sender, callId)
    THEN /\ videoCalls' = [videoCalls EXCEPT ![callId].isConnected = TRUE,
                                             ![callId].startTime = now]
         /\ UNCHANGED <<nextCallId, callInvitations, isRegistered,
                        blockedUsers, userCallHistory>>
    ELSE Revert
startVideoCallEmits(sender, callId) ==
    <<Event("CallStarted", Call(callId).initiator, Call(callId).recipient,
            callId, 0)>>

updateSignalingDataRequires(sender, callId) ==
    /\ callExists(callId)
    /\ onlyCallParticipant(sender, callId)
    /\ Call(callId).isActive
updateSignalingData(sender, callId) ==
    IF updateSignalingDataRequires(sender, callId)
    THEN UNCHANGED storageVars
    ELSE Revert
updateSignalingDataEmits(sender, callId) ==
    <<Event("SignalingDataUpdated", sender, ZeroAddress, callId, 0)>>

endVideoCallRequires(sender, callId) ==
    /\ callExists(callId)
    /\ onlyCallParticipant(sender, callId)
    /\ Call(callId).isActive
    \* checked arithmetic (solidity ^0.8): endTime - startTime must not underflow
    /\ now >= Call(callId).startTime
endVideoCall(sender, callId) ==
    IF endVideoCallRequires(sender, callId)
    THEN /\ videoCalls' = [videoCalls EXCEPT ![callId].isActive = FALSE,
                                             ![callId].endTime = now]
         /\ UNCHANGED <<nextCallId, callInvitations, isRegistered,
                        blockedUsers, userCallHistory>>
    ELSE Revert
\* duration = call.endTime - call.startTime, with endTime = block.timestamp
endVideoCallEmits(sender, callId) ==
    <<Event("CallEnded", ZeroAddress, ZeroAddress, callId,
            now - Call(callId).startTime)>>

\* ---- blockUser / unblockUser
blockUserRequires(sender, user) == onlyRegistered(sender) /\ user # sender
blockUser(sender, user) ==
    IF blockUserRequires(sender, user)
    THEN /\ blockedUsers' = [blockedUsers EXCEPT ![sender] = @ \cup {user}]
         /\ UNCHANGED <<nextCallId, videoCalls, callInvitations, isRegistered,
                        userCallHistory>>
    ELSE Revert
blockUserEmits(sender, user) == <<Event("UserBlocked", sender, user, 0, 0)>>

unblockUserRequires(sender, user) == onlyRegistered(sender)
\* the function leaving the block in place
unblockUser_KeepsBlock(sender, user) ==
    IF unblockUserRequires(sender, user)
    THEN UNCHANGED storageVars
    ELSE Revert
unblockUser(sender, user) ==
    IF unblockUserRequires(sender, user)
    THEN /\ blockedUsers' = [blockedUsers EXCEPT ![sender] = @ \ {user}]
         /\ UNCHANGED <<nextCallId, videoCalls, callInvitations, isRegistered,
                        userCallHistory>>
    ELSE Revert
unblockUserEmits(sender, user) == <<>>

\* ---- one transaction of the contract, by name
Requires(op, sender, arg) ==
    CASE op = "registerUser" -> registerUserRequires(sender)
      [] op = "updateUserStatus" -> updateUserStatusRequires(sender)
      [] op = "inviteToCall" -> inviteToCallRequires(sender, arg)
      [] op = "acceptCallInvitation" -> acceptCallInvitationRequires(sender, arg)
      [] op = "declineCallInvitation" -> declineCallInvitationRequires(sender, arg)
      [] op = "startVideoCall" -> startVideoCallRequires(sender, arg)
      [] op = "updateSignalingData" -> updateSignalingDataRequires(sender, arg)
      [] op = "endVideoCall" -> endVideoCallRequires(sender, arg)
      [] op = "blockUser" -> blockUserRequires(sender, arg)
      [] op = "unblockUser" -> unblockUserRequires(sender, arg)

Execute(op, sender, arg) ==
    CASE op = "registerUser" -> registerUser(sender)
      [] op = "updateUserStatus" -> updateUserStatus(sender)
      [] op = "inviteToCall" -> inviteToCall(sender, arg)
      [] op = "acceptCallInvitation" -> acceptCallInvitation(sender, arg)
      [] op = "declineCallInvitation" -> declineCallInvitation(sender, arg)
      [] op = "startVideoCall" -> startVideoCall(sender, arg)
      [] op = "updateSignalingData" -> updateSignalingData(sender, arg)
      [] op = "endVideoCall" -> endVideoCall(sender, arg)
      [] op = "blockUser" -> blockUser(sender, arg)
      [] op = "unblockUser" -> unblockUser(sender, arg)

Emits(op, sender, arg) ==
    IF ~Requires(op, sender, arg) THEN <<>>
    ELSE CASE op = "registerUser" -> registerUserEmits(sender)
           [] op = "updateUserStatus" -> updateUserStatusEmits(sender)
           [] op = "inviteToCall" -> inviteToCallEmits(sender, arg)
           [] op = "acceptCallInvitation" -> acceptCallInvitationEmits(sender, arg)
           [] op = "declineCallInvitation" -> declineCallInvitationEmits(sender, arg)
           [] op = "startVideoCall" -> startVideoCallEmits(sender, arg)
           [] op = "updateSignalingData" -> updateSignalingDataEmits(sender, arg)
           [] op = "endVideoCall" -> endVideoCallEmits(sender, arg)
           [] op = "blockUser" -> blockUserEmits(sender, arg)
           [] op = "unblockUser" -> unblockUserEmits(sender, arg)

\* The model's bounds on the records a run creates.
WithinBounds(op, sender, arg) ==
    /\ op = "acceptCallInvitation" => nextCallId <= MaxCalls
    /\ op = "inviteToCall" =>
          \/ InviteIdOf(sender, arg, now) \in DOMAIN callInvitations
          \/ Cardinality(DOMAIN callInvitations) < MaxInvites
\* The contract treats all accounts alike, so the first invitation written
\* is taken to be the one from A to B: every other run of the contract alone
\* is such a run with the accounts renamed.
FirstInvitation(op, sender, arg) ==
    (op = "inviteToCall" /\ callInvitations = <<>>
        /\ inviteToCallRequires(sender, arg))
    => (sender = "A" /\ arg = "B")

\* a transaction sent straight to the contract by any account
Transaction(op, sender, arg) ==
    /\ WithinBounds(op, sender, arg)
    /\ FirstInvitation(op, sender, arg)
    /\ Execute(op, sender, arg)
    /\ emitted' = Emits(op, sender, arg)
    /\ UNCHANGED <<now, providerVars, appVars>>

TxRegisterUser == \E s \in Users : Transaction("registerUser", s, 0)
TxUpdateUserStatus == \E s \in Users : Transaction("updateUserStatus", s, 0)
TxInviteToCall == \E s, r \in Users : Transaction("inviteToCall", s, r)
\* arguments: every id written so far, and one that was never written
NeverInvited == <<ZeroAddress, ZeroAddress, 0>>
InviteArgs == DOMAIN callInvitations \cup {NeverInvited}
CallArgs == 0..nextCallId
TxAcceptCallInvitation ==
    \E s \in Users, i \in InviteArgs : Transaction("acceptCallInvitation", s, i)
TxDeclineCallInvitation ==
    \E s \in Users, i \in InviteArgs : Transaction("declineCallInvitation", s, i)
TxStartVideoCall ==
    \E s \in Users, c \in CallArgs : Transaction("startVideoCall", s, c)
TxUpdateSignalingData ==
    \E s \in Users, c \in CallArgs : Transaction("updateSignalingData", s, c)
TxEndVideoCall ==
    \E s \in Users, c \in CallArgs : Transaction("endVideoCall", s, c)
TxBlockUser == \E s, u \in Users : Transaction("blockUser", s, u)
TxUnblockUser == \E s, u \in Users : Transaction("unblockUser", s, u)

\* the next block: block.timestamp does not decrease
NextBlock ==
    /\ now < MaxTime
    /\ now' = now + 1
    /\ UNCHANGED <<storageVars, emitted, providerVars, appVars>>

\* ---- the contract after its constructor; no client attached
InitApp ==
    /\ currentCallId = [c \in Clients |-> Null]
    /\ currentInviteId = [c \in Clients |-> Null]
    /\ callStartTime = [c \in Clients |-> Null]
    /\ localStream = [c \in Clients |-> Null]
    /\ peerConnection = [c \in Clients |-> Null]
    /\ durationInterval = [c \in Clients |-> Null]
    /\ intervals = [c \in Clients |-> 0]
    /\ tasks = [c \in Clients |-> EmptyBag]
    /\ inbox = [c \in Clients |-> <<>>]

InitStorage ==
    /\ now = 1
    /\ nextCallId = 1
    /\ videoCalls = <<>>
    /\ callInvitations = <<>>
    /\ blockedUsers = [u \in Users |-> {}]
    /\ userCallHistory = [u \in Users |-> <<>>]
    /\ emitted = <<>>

InitLedger ==
    /\ InitStorage
    /\ isRegistered = [u \in Users |-> FALSE]
    /\ InitApp

\* the contract once every account has registered
InitRegistered ==
    /\ InitStorage
    /\ isRegistered = [u \in Users |-> TRUE]
    /\ InitApp

NextLedger ==
    \/ TxInviteToCall
    \/ TxAcceptCallInvitation
    \/ TxDeclineCallInvitation
    \/ TxStartVideoCall
    \/ TxUpdateSignalingData
    \/ TxEndVideoCall
    \/ NextBlock

SpecLedger == InitRegistered /\ [][NextLedger]_vars

\* registration, status and blocking, with the invitations they gate
NextAccess ==
    \/ TxRegisterUser
    \/ TxUpdateUserStatus
    \/ TxBlockUser
    \/ TxUnblockUser
    \/ TxInviteToCall
    \/ NextBlock

SpecAccess == InitLedger /\ [][NextAccess]_vars

\* ================================================================ client

\* callId.toString() of the BigNumber an event carries: its decimal digits
DigitChars == <<"0", "1", "2", "3", "4", "5", "6", "7", "8", "9">>
DigitChar(d) == DigitChars[d + 1]
DigitValue(ch) == (CHOOSE i \in 1..10 : DigitChars[i] = ch) - 1
RECURSIVE toString(_)
toString(n) ==
    IF n < 10 THEN <<DigitChar(n)>>
    ELSE Append(toString(n \div 10), DigitChar(n % 10))
\* the uint256 ethers encodes for a decimal string argument
RECURSIVE ParseUint(_)
ParseUint(str) ==
    IF Len(str) = 1 THEN DigitValue(str[1])
    ELSE 10 * ParseUint(SubSeq(str, 1, Len(str) - 1))
         + DigitValue(str[Len(str)])

Task(kind, stage, arg) == [kind |-> kind, stage |-> stage, arg |-> arg]
Spawn(c, t) == tasks' = [tasks EXCEPT ![c] = @ (+) SetToBag({t})]
Retire(c, t) == tasks' = [tasks EXCEPT ![c] = @ (-) SetToBag({t})]
Advance(c, t, u) ==
    tasks' = [tasks EXCEPT ![c] = (@ (-) SetToBag({t})) (+) SetToBag({u})]
InFlight(c) == BagToSet(tasks[c])
\* the contract function an invocation's transaction calls
OpOf(kind) ==
    CASE kind = "initiateCall" -> "inviteToCall"
      [] kind = "acceptInvite" -> "acceptCallInvitation"
      [] kind = "declineInvite" -> "declineCallInvitation"
      [] kind = "startVideoCall" -> "startVideoCall"
      [] kind = "endCall" -> "endVideoCall"
ArgOf(t) ==
    CASE t.kind \in {"startVideoCall", "endCall"} -> ParseUint(t.arg)
      [] t.kind = "initiateCall" -> t.arg[1]
      [] OTHER -> t.arg

\* ---- the provider: the events of a mined transaction reach every client,
\* in the order emitted
Logged(evs) ==
    SelectSeq(evs, LAMBDA e : e.type \in {"CallInvited", "CallAccepted",
                                          "CallDeclined", "CallStarted",
                                          "CallEnded"})
Publish(evs) == inbox' = [c \in Clients |-> inbox[c] \o Logged(evs)]

\* ---- methods of PrivateVideoCallApp
showIncomingCall(c, from, inviteId) ==
    currentInviteId' = [currentInviteId EXCEPT ![c] = inviteId]
hideIncomingCall(c) ==
    currentInviteId' = [currentInviteId EXCEPT ![c] = Null]

\* cleanup() without its clearInterval
cleanup_KeepsTimer(c) ==
    /\ localStream' = [localStream EXCEPT ![c] = Null]
    /\ peerConnection' = [peerConnection EXCEPT ![c] = Null]
    /\ currentCallId' = [currentCallId EXCEPT ![c] = Null]
    /\ callStartTime' = [callStartTime EXCEPT ![c] = Null]
    /\ UNCHANGED <<durationInterval, intervals, intervals>>
cleanup(c) ==
    /\ localStream' = [localStream EXCEPT ![c] = Null]
    /\ peerConnection' = [peerConnection EXCEPT ![c] = Null]
    \* clearInterval cancels the one timer the handle names
    /\ intervals' = [intervals EXCEPT
                        ![c] = IF durationInterval[c] # Null THEN @ - 1 ELSE @]
    /\ durationInterval' = [durationInterval EXCEPT ![c] = Null]
    /\ currentCallId' = [currentCallId EXCEPT ![c] = Null]
    /\ callStartTime' = [callStartTime EXCEPT ![c] = Null]

\* startVideoCall(): returns at once without a callId, else awaits getUserMedia
App_startVideoCall(c, callIdNow) ==
    IF callIdNow = Null THEN UNCHANGED tasks
    ELSE Spawn(c, Task("startVideoCall", "media", Null))

\* the handler without its call of startVideoCall()
handleCallAccepted_NoStart(c, callId) ==
    /\ currentCallId' = [currentCallId EXCEPT ![c] = toString(callId)]
    /\ UNCHANGED <<currentInviteId, callStartTime, localStream,
                   peerConnection, durationInterval, intervals, tasks>>
handleCallAccepted(c, callId) ==
    /\ currentCallId' = [currentCallId EXCEPT ![c] = toString(callId)]
    /\ App_startVideoCall(c, toString(callId))
    /\ UNCHANGED <<currentInviteId, callStartTime, localStream,
                   peerConnection, durationInterval, intervals>>

\* setInterval creates a timer and the field takes its handle, whatever
\* handle it held
startCallTimer(c) ==
    /\ intervals' = [intervals EXCEPT ![c] = @ + 1]
    /\ durationInterval' = [durationInterval EXCEPT ![c] = <<"interval">>]
\* the handler without its call of startCallTimer()
handleCallStarted_NoTimer(c, callId) ==
    /\ currentCallId' = [currentCallId EXCEPT ![c] = toString(callId)]
    /\ callStartTime' = [callStartTime EXCEPT ![c] = <<"Date.now">>]
    /\ UNCHANGED <<currentInviteId, localStream, peerConnection,
                   durationInterval, intervals, tasks>>
handleCallStarted(c, callId) ==
    /\ currentCallId' = [currentCallId EXCEPT ![c] = toString(callId)]
    /\ callStartTime' = [callStartTime EXCEPT ![c] = <<"Date.now">>]
    /\ startCallTimer(c)
    /\ UNCHANGED <<currentInviteId, localStream, peerConnection, tasks>>

\* the handler without its call of cleanup()
handleCallEnded_NoCleanup(c) == UNCHANGED appVars
handleCallEnded(c) ==
    /\ cleanup(c)
    /\ UNCHANGED <<currentInviteId, tasks>>

\* ---- setupContractListeners: the next log entry reaches client c
onCallInvited(c, e) ==
    IF e.b = c
    THEN /\ showIncomingCall(c, e.a, e.id)
         /\ UNCHANGED <<currentCallId, callStartTime, localStream,
                        peerConnection, durationInterval, intervals, tasks>>
    ELSE UNCHANGED appVars
onCallAccepted(c, e) ==
    IF e.a = c THEN handleCallAccepted(c, e.id) ELSE UNCHANGED appVars
onCallStarted(c, e) ==
    IF e.a = c \/ e.b = c THEN handleCallStarted(c, e.id)
    ELSE UNCHANGED appVars
\* the listener without its comparison of callId with currentCallId
onCallEnded_Unfiltered(c, e) == handleCallEnded(c)
onCallEnded(c, e) ==
    IF currentCallId[c] = toString(e.id) THEN handleCallEnded(c)
    ELSE UNCHANGED appVars

\* the listeners with one for CallDeclined that hides the notification
Deliver_DeclinedHides(c) ==
    /\ inbox[c] # <<>>
    /\ inbox' = [inbox EXCEPT ![c] = Tail(@)]
    /\ LET e == Head(inbox[c])
       IN CASE e.type = "CallInvited" -> onCallInvited(c, e)
            [] e.type = "CallAccepted" -> onCallAccepted(c, e)
            [] e.type = "CallStarted" -> onCallStarted(c, e)
            [] e.type = "CallEnded" -> onCallEnded(c, e)
            [] e.type = "CallDeclined" ->
                  /\ hideIncomingCall(c)
                  /\ UNCHANGED <<currentCallId, callStartTime, localStream,
                                 peerConnection, durationInterval, intervals, tasks>>
            [] OTHER -> UNCHANGED appVars
    /\ UNCHANGED ledgerVars
Deliver(c) ==
    /\ inbox[c] # <<>>
    /\ inbox' = [inbox EXCEPT ![c] = Tail(@)]
    /\ LET e == Head(inbox[c])
       IN CASE e.type = "CallInvited" -> onCallInvited(c, e)
            [] e.type = "CallAccepted" -> onCallAccepted(c, e)
            [] e.type = "CallStarted" -> onCallStarted(c, e)
            [] e.type = "CallEnded" -> onCallEnded(c, e)
            [] OTHER -> UNCHANGED appVars
    /\ UNCHANGED ledgerVars

\* ---- user actions
InitiateCall(c) ==
    \E selectedContact \in Contacts :
        /\ BagCardinality(tasks[c]) < MaxTasks
        /\ Spawn(c, Task("initiateCall", "tx", <<selectedContact>>))
        /\ UNCHANGED <<ledgerVars, providerVars, currentCallId,
                       currentInviteId, callStartTime, localStream,
                       peerConnection, durationInterval, intervals>>

AcceptInvite(c) ==
    /\ currentInviteId[c] # Null
    /\ BagCardinality(tasks[c]) < MaxTasks
    /\ Spawn(c, Task("acceptInvite", "tx", currentInviteId[c]))
    /\ UNCHANGED <<ledgerVars, providerVars, currentCallId, currentInviteId,
                   callStartTime, localStream, peerConnection,
                   durationInterval, intervals>>

DeclineInvite(c) ==
    /\ currentInviteId[c] # Null
    /\ BagCardinality(tasks[c]) < MaxTasks
    /\ Spawn(c, Task("declineInvite", "tx", currentInviteId[c]))
    /\ UNCHANGED <<ledgerVars, providerVars, currentCallId, currentInviteId,
                   callStartTime, localStream, peerConnection,
                   durationInterval, intervals>>

EndCall(c) ==
    /\ currentCallId[c] # Null
    /\ BagCardinality(tasks[c]) < MaxTasks
    /\ Spawn(c, Task("endCall", "tx", currentCallId[c]))
    /\ UNCHANGED <<ledgerVars, providerVars, currentCallId, currentInviteId,
                   callStartTime, localStream, peerConnection,
                   durationInterval, intervals>>

\* ---- startVideoCall after getUserMedia settles.  Everything from the
\* resolution of getUserMedia to the call of contract.startVideoCall runs
\* without an await on a pending promise, so no other handler interleaves.
\* a MediaStream with one audio and one video track, each enabled or not
MediaStream(audio, video) == <<"stream", audio, video>>
Flip(enabled) == IF enabled = "enabled" THEN "disabled" ELSE "enabled"
startMediaCapture(c) ==
    localStream' = [localStream EXCEPT ![c] = MediaStream("enabled", "enabled")]
initializeWebRTC(c) ==
    peerConnection' = [peerConnection EXCEPT ![c] = <<"RTCPeerConnection">>]

\* startVideoCall without its call of initializeWebRTC()
MediaGranted_SkipsWebRTC(c) ==
    LET t == Task("startVideoCall", "media", Null)
    IN /\ t \in InFlight(c)
       /\ startMediaCapture(c)
       /\ IF currentCallId[c] = Null THEN Retire(c, t)
          ELSE Advance(c, t, Task("startVideoCall", "tx", currentCallId[c]))
       /\ UNCHANGED <<ledgerVars, providerVars, currentCallId,
                      currentInviteId, callStartTime, peerConnection,
                      durationInterval, intervals>>
MediaGranted(c) ==
    LET t == Task("startVideoCall", "media", Null)
    IN /\ t \in InFlight(c)
       /\ startMediaCapture(c)
       /\ initializeWebRTC(c)
       \* contract.startVideoCall(null) throws before anything is sent
       /\ IF currentCallId[c] = Null THEN Retire(c, t)
          ELSE Advance(c, t, Task("startVideoCall", "tx", currentCallId[c]))
       /\ UNCHANGED <<ledgerVars, providerVars, currentCallId,
                      currentInviteId, callStartTime, durationInterval, intervals>>

MediaDenied(c) ==
    LET t == Task("startVideoCall", "media", Null)
    IN /\ t \in InFlight(c)
       /\ Retire(c, t)
       /\ UNCHANGED <<ledgerVars, providerVars, currentCallId,
                      currentInviteId, callStartTime, localStream,
                      peerConnection, durationInterval, intervals>>

\* ---- media controls: audioTrack.enabled = !audioTrack.enabled
toggleMute(c) ==
    IF localStream[c] # Null
    THEN localStream' = [localStream EXCEPT ![c] = MediaStream(Flip(@[2]), @[3])]
    ELSE UNCHANGED localStream
toggleVideo(c) ==
    IF localStream[c] # Null
    THEN localStream' = [localStream EXCEPT ![c] = MediaStream(@[2], Flip(@[3]))]
    ELSE UNCHANGED localStream
\* the handler closing the peer connection as it disables the track
ToggleVideo_ClosesConnection(c) ==
    /\ toggleVideo(c)
    /\ peerConnection' = [peerConnection EXCEPT ![c] = Null]
    /\ UNCHANGED <<ledgerVars, providerVars, currentCallId, currentInviteId,
                   callStartTime, durationInterval, intervals, tasks>>
ToggleMute(c) ==
    /\ toggleMute(c)
    /\ UNCHANGED <<ledgerVars, providerVars, currentCallId, currentInviteId,
                   callStartTime, peerConnection, durationInterval, intervals, tasks>>
ToggleVideo(c) ==
    /\ toggleVideo(c)
    /\ UNCHANGED <<ledgerVars, providerVars, currentCallId, currentInviteId,
                   callStartTime, peerConnection, durationInterval, intervals, tasks>>

\* the bounds of a run with clients: the records created, the events queued
ClientBounds(op, sender, arg) ==
    /\ WithinBounds(op, sender, arg)
    /\ \A c \in Clients : Len(inbox[c]) < MaxInbox

\* ---- a transaction of client c is mined: tx.wait() will resolve or throw
HasContinuation(kind) == kind \in {"acceptInvite", "declineInvite", "endCall"}
Mine(c) ==
    \E t \in InFlight(c) :
        /\ t.stage = "tx"
        /\ ClientBounds(OpOf(t.kind), c, ArgOf(t))
        /\ Execute(OpOf(t.kind), c, ArgOf(t))
        /\ Publish(Emits(OpOf(t.kind), c, ArgOf(t)))
        /\ IF Requires(OpOf(t.kind), c, ArgOf(t)) /\ HasContinuation(t.kind)
           THEN Advance(c, t, Task(t.kind, "confirmed", t.arg))
           ELSE Retire(c, t)
        /\ UNCHANGED <<now, emitted, currentCallId, currentInviteId,
                       callStartTime, localStream, peerConnection,
                       durationInterval, intervals>>

\* the wallet or the provider refuses the transaction: the await throws
\* the catch blocks hiding the notification as well as logging
Reject_HidesInvite(c) ==
    \E t \in InFlight(c) :
        /\ t.stage = "tx"
        /\ Retire(c, t)
        /\ hideIncomingCall(c)
        /\ UNCHANGED <<ledgerVars, providerVars, currentCallId,
                       callStartTime, localStream, peerConnection,
                       durationInterval, intervals>>
Reject(c) ==
    \E t \in InFlight(c) :
        /\ t.stage = "tx"
        /\ Retire(c, t)
        /\ UNCHANGED <<ledgerVars, providerVars, currentCallId,
                       currentInviteId, callStartTime, localStream,
                       peerConnection, durationInterval, intervals>>

\* the code after `await tx.wait()` of a confirmed transaction
Confirmed(c) ==
    \E t \in InFlight(c) :
        /\ t.stage = "confirmed"
        /\ Retire(c, t)
        /\ IF t.kind = "endCall"
           THEN cleanup(c) /\ UNCHANGED currentInviteId
           ELSE hideIncomingCall(c)
                /\ UNCHANGED <<currentCallId, callStartTime, localStream,
                               peerConnection, durationInterval, intervals>>
        /\ UNCHANGED <<ledgerVars, providerVars>>

\* ---- the other accounts: any call-related transaction, straight to the
\* contract, seen by the client only through the events it emits
PeerTransaction(op, sender, arg) ==
    /\ ClientBounds(op, sender, arg)
    /\ Execute(op, sender, arg)
    /\ Publish(Emits(op, sender, arg))
    /\ UNCHANGED <<now, emitted, appVars>>

PeerInvites ==
    \E s \in Contacts, r \in Clients : PeerTransaction("inviteToCall", s, r)
PeerAccepts ==
    \E s \in Contacts, i \in InviteArgs :
        PeerTransaction("acceptCallInvitation", s, i)
PeerDeclines ==
    \E s \in Contacts, i \in InviteArgs :
        PeerTransaction("declineCallInvitation", s, i)
PeerStarts ==
    \E s \in Contacts, id \in CallArgs : PeerTransaction("startVideoCall", s, id)
PeerEnds ==
    \E s \in Contacts, id \in CallArgs : PeerTransaction("endVideoCall", s, id)

Init == InitRegistered

Next ==
    \/ \E c \in Clients : InitiateCall(c)
    \/ \E c \in Clients : AcceptInvite(c)
    \/ \E c \in Clients : DeclineInvite(c)
    \/ \E c \in Clients : EndCall(c)
    \/ \E c \in Clients : MediaGranted(c)
    \/ \E c \in Clients : MediaDenied(c)
    \/ \E c \in Clients : Mine(c)
    \/ \E c \in Clients : Reject(c)
    \/ \E c \in Clients : Confirmed(c)
    \/ \E c \in Clients : Deliver(c)
    \/ PeerInvites
    \/ PeerAccepts
    \/ PeerDeclines
    \/ PeerStarts
    \/ PeerEnds

\* the client and its contacts, within one block
Spec == Init /\ [][Next]_vars

\* the client as the invited party, over several blocks: the invitations it
\* receives, and its answers to them
NextCallee ==
    \/ PeerInvites
    \/ \E c \in Clients : Deliver(c)
    \/ \E c \in Clients : AcceptInvite(c)
    \/ \E c \in Clients : DeclineInvite(c)
    \/ \E c \in Clients : Mine(c)
    \/ \E c \in Clients : Reject(c)
    \/ \E c \in Clients : Confirmed(c)
    \/ NextBlock

SpecCallee == Init /\ [][NextCallee]_vars

\* the client as the calling party with its media controls
NextControls ==
    \/ \E c \in Clients : InitiateCall(c)
    \/ \E c \in Clients : EndCall(c)
    \/ \E c \in Clients : MediaGranted(c)
    \/ \E c \in Clients : MediaDenied(c)
    \/ \E c \in Clients : Mine(c)
    \/ \E c \in Clients : Confirmed(c)
    \/ \E c \in Clients : Deliver(c)
    \/ \E c \in Clients : ToggleMute(c)
    \/ \E c \in Clients : ToggleVideo(c)
    \/ PeerInvites
    \/ PeerAccepts
    \/ PeerStarts
    \/ PeerEnds

SpecControls == Init /\ [][NextControls]_vars

\* ---- the happy path: one call at a time, every transaction mined, media
\* granted, nobody ending a call
\* nothing is in progress: no invitation unanswered, no call waiting to be
\* started, no invocation and no event pending
Quiescent ==
    /\ \A i \in DOMAIN callInvitations :
           callInvitations[i].isAccepted \/ callInvitations[i].isDeclined
    /\ \A id \in DOMAIN videoCalls : videoCalls[id].isConnected
    /\ \A c \in Clients : tasks[c] = EmptyBag /\ inbox[c] = <<>>
HappyInitiateCall == Quiescent /\ \E c \in Clients : InitiateCall(c)
HappyPeerInvites == Quiescent /\ PeerInvites
HappyAcceptInvite == \E c \in Clients : tasks[c] = EmptyBag /\ AcceptInvite(c)
\* the contact's own client starts the calls the contact initiated, as
\* handleCallAccepted does
HappyPeerStarts ==
    \E id \in DOMAIN videoCalls :
        /\ videoCalls[id].initiator \in Contacts
        /\ PeerTransaction("startVideoCall", videoCalls[id].initiator, id)
HappyMine == \E c \in Clients : Mine(c)
HappyDeliver == \E c \in Clients : Deliver(c)
HappyMediaGranted == \E c \in Clients : MediaGranted(c)
HappyConfirmed == \E c \in Clients : Confirmed(c)

NextHappy ==
    \/ HappyInitiateCall
    \/ HappyPeerInvites
    \/ HappyAcceptInvite
    \/ PeerAccepts
    \/ HappyPeerStarts
    \/ HappyMine
    \/ HappyDeliver
    \/ HappyMediaGranted
    \/ HappyConfirmed
    \/ NextBlock

\* the promise jobs, the provider's event polling and the mining of a
\* submitted transaction all go on as long as there is work for them
SpecHappy ==
    /\ Init
    /\ [][NextHappy]_vars
    /\ WF_vars(HappyMine)
    /\ WF_vars(HappyDeliver)
    /\ WF_vars(HappyMediaGranted)
    /\ WF_vars(HappyConfirmed)
    /\ WF_vars(HappyPeerStarts)


\* ---- calls one after another, each of them ended by either side: a new
\* invitation is placed only once every earlier call has ended and the
\* client has nothing pending
Settled ==
    /\ \A i \in DOMAIN callInvitations :
           callInvitations[i].isAccepted \/ callInvitations[i].isDeclined
    /\ \A id \in DOMAIN videoCalls : ~videoCalls[id].isActive
    /\ \A c \in Clients : tasks[c] = EmptyBag /\ inbox[c] = <<>>
SettledInitiateCall == Settled /\ \E c \in Clients : InitiateCall(c)
SettledPeerInvites == Settled /\ PeerInvites
UserEndsCall == \E c \in Clients : EndCall(c)

NextEnding ==
    \/ SettledInitiateCall
    \/ SettledPeerInvites
    \/ HappyAcceptInvite
    \/ PeerAccepts
    \/ HappyPeerStarts
    \/ HappyMine
    \/ HappyDeliver
    \/ HappyMediaGranted
    \/ HappyConfirmed
    \/ UserEndsCall
    \/ PeerEnds
    \/ NextBlock

\* as in SpecHappy, submitted transactions are mined, emitted events are
\* delivered and pending promises settle; no user is obliged to end a call
SpecEnding ==
    /\ Init
    /\ [][NextEnding]_vars
    /\ WF_vars(HappyMine)
    /\ WF_vars(HappyDeliver)
    /\ WF_vars(HappyMediaGranted)
    /\ WF_vars(HappyConfirmed)
\* ================================================================ claims

\* ---- what the client is doing, read off its fields and its invocations
MediaTask == Task("startVideoCall", "media", Null)
\* an invocation of startVideoCall() has not returned, or the CallStarted of
\* its transaction is on its way to the client
Starting(c) ==
    \/ \E t \in InFlight(c) : t.kind = "startVideoCall"
    \/ \E i \in 1..Len(inbox[c]) :
          /\ inbox[c][i].type = "CallStarted"
          /\ toString(inbox[c][i].id) = currentCallId[c]
\* handleCallStarted has run and no cleanup since
Connected(c) == callStartTime[c] # Null
\* every field of the call state is null
AllCleared(c) ==
    /\ currentCallId[c] = Null
    /\ currentInviteId[c] = Null
    /\ callStartTime[c] = Null
    /\ localStream[c] = Null
    /\ peerConnection[c] = Null
    /\ durationInterval[c] = Null
\* this step retires invocation t of client c
Returns(c, t) ==
    t \in InFlight(c) /\ tasks'[c] = tasks[c] (-) SetToBag({t})
\* this step delivers an event of the given type to client c
Delivered(c, type) ==
    /\ inbox[c] # <<>>
    /\ Head(inbox[c]).type = type
    /\ inbox'[c] = Tail(inbox[c])

\* C1: currentCallId is set if and only if the client is in Starting or
\* Connected: never set otherwise, always set in those two.
C1_CallIdIffStartingOrConnected ==
    \A c \in Clients :
        (currentCallId[c] # Null) <=> (Starting(c) \/ Connected(c))

\* C2: when a local end-call (taken with currentCallId set) completes, every
\* field of the call state is cleared and every resource released; an
\* end-call is submitted only while currentCallId is set, so ending again
\* is a no-op.
C2_EndCallClearsEverything ==
    [][\A c \in Clients :
          /\ (\E t \in InFlight(c) :
                 /\ t.kind = "endCall" /\ t.stage = "confirmed"
                 /\ Returns(c, t))
             => AllCleared(c)'
          /\ (\E id \in {toString(n) : n \in 0..MaxCalls} \cup {Null} :
                 tasks'[c] = tasks[c] (+) SetToBag({Task("endCall", "tx", id)}))
             => currentCallId[c] # Null
      ]_vars

\* C3: two end-call actions on the same call, the second before the first
\* is confirmed, submit one endVideoCall transaction: never two of them
\* in flight for the same call.
C3_OneEndTransaction ==
    \A c \in Clients : \A t \in InFlight(c) :
        (t.kind = "endCall" /\ t.stage = "tx") => CopiesIn(t, tasks[c]) <= 1

\* C4: when media acquisition fails in Starting, the client is back in Idle
\* (currentCallId cleared), no startVideoCall transaction is submitted and
\* no peer connection remains.
C4_MediaFailureReturnsToIdle ==
    [][\A c \in Clients :
          (Returns(c, MediaTask) /\ localStream'[c] = Null)
          => /\ currentCallId'[c] = Null
             /\ peerConnection'[c] = Null
             /\ ~ \E t \in BagToSet(tasks'[c]) :
                     t.kind = "startVideoCall" /\ t.stage = "tx"
      ]_vars

\* C5: a CallEnded for the current call delivered while setup is in flight
\* leaves the client Idle with everything released, and the setup that
\* resumes after the call is gone leaves no stream and no peer connection
\* behind and submits no start.
C5_TerminationWinsOverSetup ==
    [][\A c \in Clients :
          /\ (/\ Delivered(c, "CallEnded")
              /\ toString(Head(inbox[c]).id) = currentCallId[c]
              /\ MediaTask \in InFlight(c))
             => (/\ currentCallId'[c] = Null
                 /\ localStream'[c] = Null
                 /\ peerConnection'[c] = Null)
          /\ (/\ MediaTask \in InFlight(c)
              /\ currentCallId[c] = Null
              /\ tasks'[c] # tasks[c])
             => (/\ currentCallId'[c] = Null
                 /\ callStartTime'[c] = Null
                 /\ localStream'[c] = Null
                 /\ peerConnection'[c] = Null
                 /\ ~ \E t \in BagToSet(tasks'[c]) :
                        t.kind = "startVideoCall" /\ t.stage = "tx")
      ]_vars

\* C6: a CallAccepted that names another initiator, or that arrives while
\* the client already tracks another call, changes no field of the call
\* state.
C6_StaleAcceptedChangesNothing ==
    [][\A c \in Clients :
          (/\ Delivered(c, "CallAccepted")
           /\ \/ Head(inbox[c]).a # c
              \/ /\ currentCallId[c] # Null
                 /\ currentCallId[c] # toString(Head(inbox[c]).id))
          => UNCHANGED <<currentCallId, currentInviteId, callStartTime,
                         localStream, peerConnection, durationInterval, intervals>>
      ]_vars

\* C7: for every callId, a CallAccepted(initiator, recipient, callId) of an
\* accepted invitation of the local user, observed by the initiator's
\* client, sets currentCallId to that callId and begins the call setup.
C7_AcceptedStartsSetup ==
    [][\A c \in Clients :
          (Delivered(c, "CallAccepted") /\ Head(inbox[c]).a = c)
          => LET e == Head(inbox[c])
             IN /\ Call(e.id).initiator = c
                /\ Call(e.id).recipient = e.b
                /\ currentCallId'[c] # Null
                /\ ParseUint(currentCallId'[c]) = e.id
                /\ tasks'[c] = tasks[c] (+) SetToBag({MediaTask})
      ]_vars
\* the initiator's client set up the second call
C7_Witness ==
    \E c \in Clients :
        /\ currentCallId[c] = toString(2)
        /\ MediaTask \in InFlight(c)
        /\ Call(2).initiator = c

\* C8: while an incoming invitation X is pending, a second CallInvited to
\* the local user does not replace it: currentInviteId remains X.
C8_PendingInviteKept ==
    [][\A c \in Clients :
          (/\ Delivered(c, "CallInvited")
           /\ Head(inbox[c]).b = c
           /\ currentInviteId[c] # Null)
          => currentInviteId'[c] = currentInviteId[c]
      ]_vars

\* C9: at most one response to an invitation ever succeeds, so one
\* invitation yields at most one call record: between any two accounts
\* there are never more call records than invitation ids.
CallsBetween(s, r) ==
    {id \in DOMAIN videoCalls :
        videoCalls[id].initiator = s /\ videoCalls[id].recipient = r}
InvitationsBetween(s, r) ==
    {id \in DOMAIN callInvitations :
        callInvitations[id].from = s /\ callInvitations[id].to = r}
C9_OneResponsePerInvitation ==
    \A s, r \in Users :
        Cardinality(CallsBetween(s, r)) <= Cardinality(InvitationsBetween(s, r))

\* C10: startVideoCall, updateSignalingData and endVideoCall by anyone but
\* a participant of the named call while it is active (a non-participant, a
\* callId never created, 0 included, an ended call) fail: no call record
\* changes and no event is emitted.
ParticipantOfActiveCall(sender, callId) ==
    /\ callId \in DOMAIN videoCalls
    /\ videoCalls[callId].isActive
    /\ sender \in {videoCalls[callId].initiator, videoCalls[callId].recipient}
C10_OnlyParticipantsOfActiveCalls ==
    \A op \in {"startVideoCall", "updateSignalingData", "endVideoCall"} :
      \A sender \in Users, callId \in CallArgs :
        ~ParticipantOfActiveCall(sender, callId)
        => /\ ~Requires(op, sender, callId)
           /\ Emits(op, sender, callId) = <<>>
           /\ ~ENABLED (Execute(op, sender, callId) /\ videoCalls' # videoCalls)
\* a call has ended and a later transaction was refused
C10_Witness ==
    /\ emitted = <<>>
    /\ \E callId \in DOMAIN videoCalls : ~videoCalls[callId].isActive

\* C11: inviteToCall fails, writing no invitation and emitting nothing, when
\* the sender or the recipient is unregistered, the sender invites itself or
\* the recipient has the sender blocked; otherwise it writes an unanswered
\* invitation from sender to recipient and emits CallInvited(sender,
\* recipient, inviteId).
MayInvite(sender, recipient) ==
    /\ isRegistered[sender] /\ isRegistered[recipient]
    /\ sender # recipient
    /\ sender \notin blockedUsers[recipient]
C11_InviteGuards ==
    \A sender, recipient \in Users :
        LET inviteId == InviteIdOf(sender, recipient, now)
        IN IF MayInvite(sender, recipient)
           THEN /\ Emits("inviteToCall", sender, recipient)
                     = <<Event("CallInvited", sender, recipient, inviteId, 0)>>
                /\ ~ENABLED (/\ Execute("inviteToCall", sender, recipient)
                             /\ ~(/\ inviteId \in DOMAIN callInvitations'
                                  /\ callInvitations'[inviteId].from = sender
                                  /\ callInvitations'[inviteId].to = recipient
                                  /\ ~callInvitations'[inviteId].isAccepted
                                  /\ ~callInvitations'[inviteId].isDeclined))
           ELSE /\ Emits("inviteToCall", sender, recipient) = <<>>
                /\ ~ENABLED (/\ Execute("inviteToCall", sender, recipient)
                             /\ callInvitations' # callInvitations)
\* an invitation was just written while some registered account has another
\* registered account blocked
C11_Witness ==
    /\ emitted # <<>>
    /\ emitted[1].type = "CallInvited"
    /\ emitted[1].id \in DOMAIN callInvitations
    /\ \E sender, recipient \in Users :
          /\ isRegistered[sender] /\ isRegistered[recipient]
          /\ sender \in blockedUsers[recipient]

\* C12: registerUser by an unregistered address registers it and emits
\* UserRegistered; by a registered address it fails and changes nothing;
\* updateUserStatus fails for an unregistered caller; a registered address
\* stays registered.
C12_Registration ==
    [][\A u \in Users :
          /\ isRegistered[u] => isRegistered'[u]
          /\ Transaction("registerUser", u, 0)
             => IF isRegistered[u]
                THEN UNCHANGED storageVars /\ emitted' = <<>>
                ELSE /\ isRegistered'[u]
                     /\ emitted' = <<Event("UserRegistered", u,
                                           ZeroAddress, 0, 0)>>
          /\ (Transaction("updateUserStatus", u, 0) /\ ~isRegistered[u])
             => (UNCHANGED storageVars /\ emitted' = <<>>)
      ]_vars
\* an account has just registered
C12_Witness ==
    \E u \in Users :
        /\ isRegistered[u]
        /\ emitted = <<Event("UserRegistered", u, ZeroAddress, 0, 0)>>

\* the fields of the client's call state
callState == <<currentCallId, currentInviteId, callStartTime, localStream,
               peerConnection, durationInterval, intervals>>
\* this step ends an invocation whose transaction was refused or reverted:
\* nothing was written and nothing emitted
FailedTransaction(c) ==
    /\ \E t \in InFlight(c) : t.stage = "tx" /\ Returns(c, t)
    /\ UNCHANGED <<storageVars, inbox>>

\* C13: a transaction that fails or is rejected does not advance the client:
\* currentInviteId, currentCallId and the rest of the call state hold the
\* values they had (a failed accept leaves the invite pending, a failed
\* invite leaves the client as it was).
C13_FailureChangesNothing ==
    [][\A c \in Clients : FailedTransaction(c) => UNCHANGED callState]_vars
\* a transaction of the client that the contract will refuse is in flight
\* while the client tracks an invite or a call
C13_Witness ==
    \E c \in Clients : \E t \in InFlight(c) :
        /\ t.stage = "tx"
        /\ ~Requires(OpOf(t.kind), c, ArgOf(t))
        /\ (currentInviteId[c] # Null \/ currentCallId[c] # Null)

\* C14: when an end-call or a decline completes, on every exit path (the
\* transaction confirmed, reverted or rejected), no local media stream and
\* no peer connection is held.
C14_EndOrDeclineReleasesMedia ==
    [][\A c \in Clients :
          (\E t \in InFlight(c) :
              /\ t.kind \in {"endCall", "declineInvite"}
              /\ Returns(c, t))
          => (localStream'[c] = Null /\ peerConnection'[c] = Null)
      ]_vars

\* C15: currentInviteId and currentCallId are never both set: the client
\* tracks one outstanding invite or one call.
C15_InviteOrCallNotBoth ==
    \A c \in Clients : ~(currentInviteId[c] # Null /\ currentCallId[c] # Null)

\* C16: once the recipient's acceptCallInvitation is confirmed, its client
\* holds the id of a call it is the recipient of and has begun the call
\* setup, as the initiator does after CallAccepted.
C16_RecipientEntersStarting ==
    [][\A c \in Clients :
          (\E t \in InFlight(c) :
              /\ t.kind = "acceptInvite" /\ t.stage = "confirmed"
              /\ Returns(c, t))
          => /\ currentCallId'[c] # Null
             /\ MediaTask \in BagToSet(tasks'[c])
      ]_vars

\* C18: a client holding invite X that receives a CallDeclined for another
\* invite Y keeps currentInviteId = X and every other field.
C18_OtherDeclineChangesNothing ==
    [][\A c \in Clients :
          (/\ Delivered(c, "CallDeclined")
           /\ currentInviteId[c] # Null
           /\ Head(inbox[c]).id # currentInviteId[c])
          => UNCHANGED <<callState, tasks>>
      ]_vars
\* a CallDeclined for another invite is about to reach a client that holds
\* an invite
C18_Witness ==
    \E c \in Clients :
        /\ inbox[c] # <<>>
        /\ Head(inbox[c]).type = "CallDeclined"
        /\ currentInviteId[c] # Null
        /\ Head(inbox[c]).id # currentInviteId[c]

\* C19: the startVideoCall transaction is submitted only once the local
\* stream is captured and the peer connection created: at no submission is
\* localStream or peerConnection unset.
StartSubmitted(c) ==
    \E t \in BagToSet(tasks'[c]) :
        /\ t.kind = "startVideoCall" /\ t.stage = "tx"
        /\ CopiesIn(t, tasks'[c]) > CopiesIn(t, tasks[c])
C19_StartAfterMediaAndNegotiator ==
    [][\A c \in Clients :
          StartSubmitted(c)
          => (localStream'[c] # Null /\ peerConnection'[c] # Null)
      ]_vars
\* a start transaction is in flight with the stream and the connection held
C19_Witness ==
    \E c \in Clients :
        /\ \E t \in InFlight(c) : t.kind = "startVideoCall" /\ t.stage = "tx"
        /\ localStream[c] # Null
        /\ peerConnection[c] # Null

\* C17: toggleMute and toggleVideo are local: in any state they submit no
\* transaction and leave the ledger, currentCallId, currentInviteId,
\* callStartTime, the timer and the peer connection unchanged; with no local
\* stream they change nothing at all.
C17_TogglesAreLocal ==
    \A c \in Clients :
        /\ ~ENABLED (/\ ToggleMute(c) \/ ToggleVideo(c)
                     /\ <<ledgerVars, inbox, tasks, currentCallId,
                          currentInviteId, callStartTime, durationInterval, intervals,
                          peerConnection>>'
                        # <<ledgerVars, inbox, tasks, currentCallId,
                             currentInviteId, callStartTime, durationInterval, intervals,
                             peerConnection>>)
        /\ localStream[c] = Null
           => ~ENABLED (/\ ToggleMute(c) \/ ToggleVideo(c)
                        /\ vars' # vars)
\* the microphone is muted during a started call
C17_Witness ==
    \E c \in Clients :
        /\ localStream[c] # Null
        /\ localStream[c][2] = "disabled"
        /\ currentCallId[c] # Null
        /\ peerConnection[c] # Null
        /\ durationInterval[c] # Null

\* C20: on the happy path, once an invitation is accepted the ledger
\* eventually marks the call connected and the client of a participant
\* eventually holds currentCallId equal to that callId with callStartTime
\* set and the duration timer running, whether it is the initiator or the
\* recipient of the call.
HappyConnected(callId) ==
    /\ Call(callId).isConnected
    /\ \A c \in Clients :
          /\ currentCallId[c] = toString(callId)
          /\ callStartTime[c] # Null
          /\ durationInterval[c] # Null
C20_HappyPathConnects ==
    \A callId \in 1..MaxCalls :
        (callId \in DOMAIN videoCalls /\ ~videoCalls[callId].isConnected)
            ~> HappyConnected(callId)
\* the second call is connected and the client shows it
C20_Witness == HappyConnected(2)

\* C25: a successful acceptCallInvitation creates exactly one call record,
\* under the id nextCallId held before, with the invitation's sender as
\* initiator, the accepting account as recipient, isActive true and
\* isConnected false, advances nextCallId by one and emits
\* CallAccepted(sender of the invitation, accepting account, callId); the
\* initiator and the recipient of every call record are two different
\* registered accounts.
AcceptedCall(sender, inviteId) ==
    [initiator |-> Invitation(inviteId).from, recipient |-> sender,
     isActive |-> TRUE, isConnected |-> FALSE]
CallCreated(callId, expected) ==
    /\ callId \notin DOMAIN videoCalls
    /\ DOMAIN videoCalls' = DOMAIN videoCalls \cup {callId}
    /\ \A x \in DOMAIN videoCalls : videoCalls'[x] = videoCalls[x]
    /\ \A f \in DOMAIN expected : videoCalls'[callId][f] = expected[f]
    /\ nextCallId' = callId + 1
C26_OnlyAddresseeResponds ==
    \A op \in {"acceptCallInvitation", "declineCallInvitation"} :
      \A sender \in Users, inviteId \in InviteArgs :
        (inviteId \notin DOMAIN callInvitations
            \/ callInvitations[inviteId].to # sender)
        => /\ ~Requires(op, sender, inviteId)
           /\ Emits(op, sender, inviteId) = <<>>
           /\ ~ENABLED (/\ Execute(op, sender, inviteId)
                        /\ \/ callInvitations' # callInvitations
                           \/ nextCallId' # nextCallId)
\* an invitation is unanswered and the last transaction was refused
C26_Witness ==
    /\ emitted = <<>>
    /\ \E inviteId \in DOMAIN callInvitations :
          /\ ~callInvitations[inviteId].isAccepted
          /\ ~callInvitations[inviteId].isDeclined

\* C27: no invitation record has isAccepted and isDeclined both true.
C27_NeverAcceptedAndDeclined ==
    \A inviteId \in DOMAIN callInvitations :
        ~(callInvitations[inviteId].isAccepted
            /\ callInvitations[inviteId].isDeclined)
\* an invitation was answered and a later transaction was refused
C27_Witness ==
    /\ emitted = <<>>
    /\ \E inviteId \in DOMAIN callInvitations :
          \/ callInvitations[inviteId].isAccepted
          \/ callInvitations[inviteId].isDeclined

\* C29: while r has u blocked, every inviteToCall from u to r fails; only
\* r's unblockUser(u) lifts the block, and after it an invitation from u to
\* r succeeds again; blockUser changes no invitation record.
AccessOps ==
    {"registerUser", "updateUserStatus", "inviteToCall", "blockUser",
     "unblockUser"}
C29_BlockGatesInvitations ==
    \A u, r \in Users :
      /\ u \in blockedUsers[r]
         => /\ ~Requires("inviteToCall", u, r)
            /\ Emits("inviteToCall", u, r) = <<>>
            /\ ~ENABLED (/\ Execute("inviteToCall", u, r)
                         /\ callInvitations' # callInvitations)
            /\ \A op \in AccessOps, s, arg \in Users :
                  ~(op = "unblockUser" /\ s = r /\ arg = u)
                  => ~ENABLED (/\ Execute(op, s, arg)
                               /\ u \notin blockedUsers'[r])
      /\ Requires("blockUser", r, u)
         => ~ENABLED (/\ Execute("blockUser", r, u)
                      /\ ~(/\ u \in blockedUsers'[r]
                           /\ callInvitations' = callInvitations))
      /\ Requires("unblockUser", r, u)
         => ~ENABLED (/\ Execute("unblockUser", r, u)
                      /\ ~(/\ u \notin blockedUsers'[r]
                           /\ (isRegistered[u] /\ u # r)
                              => inviteToCallRequires(u, r)'))
\* r holds an invitation from u written before r blocked u
C29_Witness ==
    \E u, r \in Users :
        /\ u \in blockedUsers[r]
        /\ \E inviteId \in DOMAIN callInvitations :
              /\ callInvitations[inviteId].from = u
              /\ callInvitations[inviteId].to = r

\* C22: a CallEnded event whose callId is not the client's currentCallId
\* (currentCallId unset included) is ignored: no field of the call state
\* changes, no resource is released and no invocation begins.
C22_OtherCallEndedIgnored ==
    [][\A c \in Clients :
          (/\ Delivered(c, "CallEnded")
           /\ currentCallId[c] # toString(Head(inbox[c]).id))
          => UNCHANGED <<callState, tasks>>
      ]_vars
\* the CallEnded of another call is next in line while the client holds a
\* stream
C22_Witness ==
    \E c \in Clients :
        /\ inbox[c] # <<>>
        /\ Head(inbox[c]).type = "CallEnded"
        /\ currentCallId[c] # toString(Head(inbox[c]).id)
        /\ localStream[c] # Null

\* C23: a CallStarted event for a call of the local user, delivered while
\* the client holds the id of another call, is ignored: currentCallId,
\* callStartTime and the duration timer stay as they were.
C23_OtherCallStartedIgnored ==
    [][\A c \in Clients :
          (/\ Delivered(c, "CallStarted")
           /\ c \in {Head(inbox[c]).a, Head(inbox[c]).b}
           /\ currentCallId[c] # Null
           /\ currentCallId[c] # toString(Head(inbox[c]).id))
          => UNCHANGED <<currentCallId, callStartTime, durationInterval, intervals>>
      ]_vars

\* C24: the client submits inviteToCall only when Idle: it holds no call id
\* and no pending incoming invitation, and no earlier invitation of its own
\* is still being submitted or unanswered.
InviteSubmitted(c) ==
    \E t \in BagToSet(tasks'[c]) :
        /\ t.kind = "initiateCall"
        /\ CopiesIn(t, tasks'[c]) > CopiesIn(t, tasks[c])
OutgoingUnanswered(c) ==
    \/ \E t \in InFlight(c) : t.kind = "initiateCall"
    \/ \E i \in DOMAIN callInvitations :
          /\ callInvitations[i].from = c
          /\ ~callInvitations[i].isAccepted
          /\ ~callInvitations[i].isDeclined
C24_InviteOnlyWhenIdle ==
    [][\A c \in Clients :
          InviteSubmitted(c)
          => /\ currentCallId[c] = Null
             /\ currentInviteId[c] = Null
             /\ ~OutgoingUnanswered(c)
      ]_vars

\* C30: whenever no invocation of startVideoCall or endCall is in flight and
\* currentCallId is unset, the client holds no media stream and no peer
\* connection.
QuiescentClient(c) ==
    \A t \in InFlight(c) : t.kind \notin {"startVideoCall", "endCall"}
C30_NoResourcesWithoutCall ==
    \A c \in Clients :
        (QuiescentClient(c) /\ currentCallId[c] = Null)
        => (localStream[c] = Null /\ peerConnection[c] = Null)

\* ---- the end of a call, as the client sees it
\* the CallEnded of call callId is on its way to client c
EndedEventPending(c, callId) ==
    \E i \in 1..Len(inbox[c]) :
        inbox[c][i].type = "CallEnded" /\ inbox[c][i].id = callId
\* the timer, the media, the connection, the call id and the start time
\* are all dropped
Released(c) ==
    /\ durationInterval[c] = Null
    /\ localStream[c] = Null
    /\ peerConnection[c] = Null
    /\ currentCallId[c] = Null
    /\ callStartTime[c] = Null

\* C21: the CallEnded of the client's current call stops the timer, drops
\* the media stream and the peer connection and clears currentCallId and
\* callStartTime; and once a started call has been ended on the ledger, by
\* either participant, the client eventually holds no call id.
C21_EndedCallIsLeft ==
    /\ [][\A c \in Clients :
             (/\ Delivered(c, "CallEnded")
              /\ currentCallId[c] = toString(Head(inbox[c]).id))
             => (/\ durationInterval'[c] = Null
                 /\ localStream'[c] = Null
                 /\ peerConnection'[c] = Null
                 /\ currentCallId'[c] = Null
                 /\ callStartTime'[c] = Null)
         ]_vars
    /\ \A c \in Clients, callId \in 1..MaxCalls :
          (/\ Call(callId).isConnected
           /\ ~Call(callId).isActive
           /\ EndedEventPending(c, callId))
          ~> (currentCallId[c] = Null)
\* a started call has ended and the client, having had its timer running,
\* is left with nothing
C21_Witness ==
    \E c \in Clients, callId \in DOMAIN videoCalls :
        /\ videoCalls[callId].isConnected
        /\ ~videoCalls[callId].isActive
        /\ c \in {videoCalls[callId].initiator, videoCalls[callId].recipient}
        /\ inbox[c] = <<>>
        /\ Released(c)

\* C28: an endCall transaction refused because the call had already ended
\* changes nothing in the client; the client, still holding the call id
\* with the CallEnded on its way, eventually holds no call id, no timer, no
\* media stream and no peer connection.
EndRefused(c) ==
    \E t \in InFlight(c) :
        /\ t.kind = "endCall" /\ t.stage = "tx"
        /\ ~Call(ParseUint(t.arg)).isActive
        /\ Returns(c, t)
EndDoomed(c, callId) ==
    /\ Task("endCall", "tx", toString(callId)) \in InFlight(c)
    /\ currentCallId[c] = toString(callId)
    /\ callId \in DOMAIN videoCalls
    /\ ~videoCalls[callId].isActive
    /\ EndedEventPending(c, callId)
Emitted(type) ==
    /\ now' = now
    /\ emitted' # <<>>
    /\ emitted'[1].type = type
Answered(inviteId) ==
    callInvitations[inviteId].isAccepted \/ callInvitations[inviteId].isDeclined

\* C35: inviteToCall never overwrites an invitation record: the inviteId of
\* a successful invite is none of those written before, and an invitation
\* that was accepted or declined keeps its answer.
C35_InviteNeverOverwrites ==
    [][/\ Emitted("CallInvited")
          => emitted'[1].id \notin DOMAIN callInvitations
       /\ \A inviteId \in DOMAIN callInvitations :
             Answered(inviteId)
             => /\ inviteId \in DOMAIN callInvitations'
                /\ callInvitations'[inviteId] = callInvitations[inviteId]
      ]_vars

\* C36: for every callId, CallAccepted comes once and first (it creates the
\* record), CallStarted at most once and never after CallEnded, CallEnded at
\* most once; a record is never removed, its connected flag never reset,
\* its active flag never set again, and nothing but a failure follows for
\* start, signaling update and end once the call is inactive.
C36_EventOrderPerCall ==
    [][/\ Emitted("CallAccepted")
          => /\ emitted'[1].id \notin DOMAIN videoCalls
             /\ emitted'[1].id \in DOMAIN videoCalls'
       /\ Emitted("CallStarted")
          => /\ Call(emitted'[1].id).isActive
             /\ ~Call(emitted'[1].id).isConnected
             /\ videoCalls'[emitted'[1].id].isConnected
       /\ Emitted("SignalingDataUpdated") => Call(emitted'[1].id).isActive
       /\ Emitted("CallEnded")
          => /\ Call(emitted'[1].id).isActive
             /\ ~videoCalls'[emitted'[1].id].isActive
       /\ \A callId \in DOMAIN videoCalls :
             /\ callId \in DOMAIN videoCalls'
             /\ videoCalls[callId].isConnected
                => videoCalls'[callId].isConnected
             /\ ~videoCalls[callId].isActive
                => videoCalls'[callId] = videoCalls[callId]
      ]_vars
\* a call was accepted, started and ended, and a later transaction on the
\* ledger was refused
C36_Witness ==
    /\ emitted = <<>>
    /\ \E callId \in DOMAIN videoCalls :
          videoCalls[callId].isConnected /\ ~videoCalls[callId].isActive

\* C37: nextCallId starts at 1 and never decreases; it grows, by exactly
\* one, on a successful acceptCallInvitation and on nothing else; a call
\* record with a non-zero initiator exists exactly for the ids
\* 1 .. nextCallId - 1, and the record of an id stays for the same two
\* accounts.
C37_NextCallIdCountsCalls ==
    /\ nextCallId = 1
    /\ [](\A callId \in 0..(nextCallId + 1) :
             (Call(callId).initiator # ZeroAddress)
             <=> (callId \in 1..(nextCallId - 1)))
    /\ [][/\ nextCallId' =
                IF Emitted("CallAccepted") THEN nextCallId + 1 ELSE nextCallId
          /\ \A callId \in DOMAIN videoCalls :
                /\ videoCalls'[callId].initiator = videoCalls[callId].initiator
                /\ videoCalls'[callId].recipient = videoCalls[callId].recipient
         ]_vars
\* two calls were created, under the ids 1 and 2
C37_Witness ==
    /\ nextCallId = 3
    /\ DOMAIN videoCalls = {1, 2}

\* C38: every callId is exactly once in the history of its initiator, once
\* in that of its recipient and in no other account's; the histories hold
\* nothing else and every operation leaves each history as it was or
\* appends to it.
Occurrences(history, callId) ==
    Cardinality({i \in 1..Len(history) : history[i] = callId})
IsPrefix(s, t) == Len(s) <= Len(t) /\ SubSeq(t, 1, Len(s)) = s
C38_HistoryMatchesCalls ==
    /\ [](\A u \in Users :
             /\ \A callId \in DOMAIN videoCalls :
                   Occurrences(userCallHistory[u], callId) =
                      IF u \in {videoCalls[callId].initiator,
                                videoCalls[callId].recipient}
                      THEN 1 ELSE 0
             /\ \A i \in 1..Len(userCallHistory[u]) :
                   userCallHistory[u][i] \in DOMAIN videoCalls)
    /\ [][\A u \in Users :
             IsPrefix(userCallHistory[u], userCallHistory'[u])]_vars
\* an account has two calls in its history
C38_Witness ==
    \E u \in Users : Len(userCallHistory[u]) = 2

\* C39: block timestamps not decreasing, endVideoCall never fails on the
\* subtraction: startTime <= block.timestamp for every call, so a
\* participant's endVideoCall of an active call succeeds, and
\* startTime <= endTime once ended; the duration in CallEnded is
\* endTime - startTime, where startTime was written by the accept and again
\* by the start, and by nothing else.
C39_DurationNeverUnderflows ==
    /\ [](\A callId \in DOMAIN videoCalls :
             /\ videoCalls[callId].startTime <= now
             /\ ~videoCalls[callId].isActive
                => videoCalls[callId].startTime <= videoCalls[callId].endTime
             /\ \A sender \in Users :
                   ParticipantOfActiveCall(sender, callId)
                   => Requires("endVideoCall", sender, callId))
    /\ [][/\ Emitted("CallEnded")
             => LET callId == emitted'[1].id
                IN /\ videoCalls'[callId].endTime = now
                   /\ emitted'[1].n = videoCalls'[callId].endTime
                                        - videoCalls'[callId].startTime
          /\ \A callId \in DOMAIN videoCalls' :
                videoCalls'[callId].startTime =
                   IF \/ Emitted("CallAccepted") /\ emitted'[1].id = callId
                      \/ Emitted("CallStarted") /\ emitted'[1].id = callId
                   THEN now
                   ELSE videoCalls[callId].startTime
         ]_vars
\* a call started in a later block than it was accepted in has ended
C39_Witness ==
    /\ emitted # <<>>
    /\ emitted[1].type = "CallEnded"
    /\ videoCalls[emitted[1].id].isConnected
    /\ videoCalls[emitted[1].id].startTime > 1

\* C31: the cleanup endCall runs once its transaction is confirmed wipes
\* only the call that was ended: if by then the CallEnded of that call has
\* been delivered and the client holds the id of another call, that call's
\* id, start time, timer, media stream and peer connection stay.
EndConfirmedFor(c, t) ==
    /\ t \in InFlight(c)
    /\ t.kind = "endCall" /\ t.stage = "confirmed"
    /\ Returns(c, t)
C31_EndCallSparesNewerCall ==
    [][\A c \in Clients :
          (\E t \in InFlight(c) :
              /\ EndConfirmedFor(c, t)
              /\ ~EndedEventPending(c, ParseUint(t.arg))
              /\ currentCallId[c] # Null
              /\ currentCallId[c] # t.arg)
          => UNCHANGED <<currentCallId, callStartTime, durationInterval, intervals,
                         localStream, peerConnection>>
      ]_vars

\* C32: the confirmation of an accept or a decline clears only the
\* invitation that was answered: an invitation delivered while the
\* transaction was pending is still in currentInviteId afterwards.
ResponseConfirmedFor(c, t) ==
    /\ t \in InFlight(c)
    /\ t.kind \in {"acceptInvite", "declineInvite"} /\ t.stage = "confirmed"
    /\ Returns(c, t)
C32_ResponseSparesNewerInvite ==
    [][\A c \in Clients :
          (\E t \in InFlight(c) :
              /\ ResponseConfirmedFor(c, t)
              /\ currentInviteId[c] # Null
              /\ currentInviteId[c] # t.arg)
          => currentInviteId'[c] = currentInviteId[c]
      ]_vars

\* C33: the callId of a start-call transaction is that of the CallAccepted
\* that began the setup, an event the listener passes on only for calls the
\* local user initiated: no transaction is submitted for a call the user
\* did not initiate.
C33_StartCarriesAcceptedCallId ==
    [][\A c \in Clients :
          \A t \in BagToSet(tasks'[c]) :
              (/\ t.kind = "startVideoCall" /\ t.stage = "tx"
               /\ CopiesIn(t, tasks'[c]) > CopiesIn(t, tasks[c]))
              => Call(ParseUint(t.arg)).initiator = c
      ]_vars

\* C34: at most one duration timer is live in a client, the one
\* durationInterval names, and none once cleanup has cleared the field: no
\* CallStarted leaves a timer running that cleanup cannot cancel.
C34_OneTimerAtMost ==
    \A c \in Clients :
        intervals[c] = IF durationInterval[c] = Null THEN 0 ELSE 1

=============================================================================
